---- MODULE Spec2Model ----
(***************************************************************************)
(* A model of the 2016 CEGS N-GRID evaluation scripts: the tag identity    *)
(* and equality model of tags.py and the filter builder, the path          *)
(* dispatch and the ordinal scoring of evaluate.py.                        *)
(*                                                                         *)
(* The scripts are Python 2 (evaluate.py uses print statements), so        *)
(* OrderedDict.values() is a list and compares element by element.         *)
(*                                                                         *)
(* A Python string is a sequence of ASCII codes, so that upper(), lower(), *)
(* strip() and int() are computed character by character.                  *)
(***************************************************************************)
EXTENDS Integers, Sequences, FiniteSets, TLC

(***************************************************************************)
(* String literals of tags.py (the TYPE vocabulary and the category names) *)
(***************************************************************************)
s_PATIENT == <<80, 65, 84, 73, 69, 78, 84>>
s_DOCTOR == <<68, 79, 67, 84, 79, 82>>
s_USERNAME == <<85, 83, 69, 82, 78, 65, 77, 69>>
s_PROFESSION == <<80, 82, 79, 70, 69, 83, 83, 73, 79, 78>>
s_ROOM == <<82, 79, 79, 77>>
s_DEPARTMENT == <<68, 69, 80, 65, 82, 84, 77, 69, 78, 84>>
s_HOSPITAL == <<72, 79, 83, 80, 73, 84, 65, 76>>
s_ORGANIZATION == <<79, 82, 71, 65, 78, 73, 90, 65, 84, 73, 79, 78>>
s_STREET == <<83, 84, 82, 69, 69, 84>>
s_CITY == <<67, 73, 84, 89>>
s_STATE == <<83, 84, 65, 84, 69>>
s_COUNTRY == <<67, 79, 85, 78, 84, 82, 89>>
s_ZIP == <<90, 73, 80>>
s_OTHER == <<79, 84, 72, 69, 82>>
s_LOCATION_OTHER == <<76, 79, 67, 65, 84, 73, 79, 78, 45, 79, 84, 72, 69, 82>>
s_AGE == <<65, 71, 69>>
s_DATE == <<68, 65, 84, 69>>
s_PHONE == <<80, 72, 79, 78, 69>>
s_FAX == <<70, 65, 88>>
s_EMAIL == <<69, 77, 65, 73, 76>>
s_URL == <<85, 82, 76>>
s_IPADDR == <<73, 80, 65, 68, 68, 82>>
s_SSN == <<83, 83, 78>>
s_MEDICALRECORD == <<77, 69, 68, 73, 67, 65, 76, 82, 69, 67, 79, 82, 68>>
s_HEALTHPLAN == <<72, 69, 65, 76, 84, 72, 80, 76, 65, 78>>
s_ACCOUNT == <<65, 67, 67, 79, 85, 78, 84>>
s_LICENSE == <<76, 73, 67, 69, 78, 83, 69>>
s_VEHICLE == <<86, 69, 72, 73, 67, 76, 69>>
s_DEVICE == <<68, 69, 86, 73, 67, 69>>
s_BIOID == <<66, 73, 79, 73, 68>>
s_IDNUM == <<73, 68, 78, 85, 77>>
s_PHI == <<80, 72, 73>>
s_NAME == <<78, 65, 77, 69>>
s_LOCATION == <<76, 79, 67, 65, 84, 73, 79, 78>>
s_CONTACT == <<67, 79, 78, 84, 65, 67, 84>>
s_ID == <<73, 68>>
s_empty == << >>

(***************************************************************************)
(* String literals of evaluate.py (the severity levels)                    *)
(***************************************************************************)
s_ABSENT == <<65, 66, 83, 69, 78, 84>>
s_MILD == <<77, 73, 76, 68>>
s_MODERATE == <<77, 79, 68, 69, 82, 65, 84, 69>>
s_SEVERE == <<83, 69, 86, 69, 82, 69>>

(***************************************************************************)
(* Input strings the annotation files and the command line supply          *)
(***************************************************************************)
s_Date_mixed == <<68, 97, 116, 101>>         \* "Date"
s_date_lower == <<100, 97, 116, 101>>        \* "date"
s_phone_lower == <<112, 104, 111, 110, 101>> \* "phone"
s_FOO == <<70, 79, 79>>                      \* "FOO"
s_10 == <<49, 48>>                           \* "10"
s_11 == <<49, 49>>                           \* "11"
s_12 == <<49, 50>>                           \* "12"
s_13 == <<49, 51>>                           \* "13"
s_14 == <<49, 52>>                           \* "14"
s_012 == <<48, 49, 50>>                      \* "012"
s_1a == <<49, 97>>                           \* "1a"
s_P1 == <<80, 49>>                           \* "P1"

(***************************************************************************)
(* Python built-ins on strings: str.upper, str.lower, str.strip, int       *)
(***************************************************************************)
upper(s) == [i \in 1..Len(s) |-> IF s[i] >= 97 /\ s[i] <= 122 THEN s[i] - 32 ELSE s[i]]

lower(s) == [i \in 1..Len(s) |-> IF s[i] >= 65 /\ s[i] <= 90 THEN s[i] + 32 ELSE s[i]]

RECURSIVE lstrip(_)
lstrip(s) == IF Len(s) > 0 /\ s[1] = 32 THEN lstrip(SubSeq(s, 2, Len(s))) ELSE s

RECURSIVE rstrip(_)
rstrip(s) == IF Len(s) > 0 /\ s[Len(s)] = 32 THEN rstrip(SubSeq(s, 1, Len(s) - 1)) ELSE s

strip(s) == rstrip(lstrip(s))

\* The digits of a literal, after the blanks around it and one sign are removed.
int_digits(s) ==
    LET t == strip(s)
    IN  IF Len(t) > 0 /\ t[1] \in {43, 45} THEN SubSeq(t, 2, Len(t)) ELSE t

\* int(s) does not raise ValueError
int_ok(s) ==
    LET d == int_digits(s)
    IN  Len(d) > 0 /\ \A i \in 1..Len(d) : d[i] >= 48 /\ d[i] <= 57

RECURSIVE digits_value(_)
digits_value(d) ==
    IF Len(d) = 0 THEN 0
    ELSE 10 * digits_value(SubSeq(d, 1, Len(d) - 1)) + (d[Len(d)] - 48)

\* int(s), where int_ok(s)
int_value(s) ==
    LET t == strip(s)
        v == digits_value(int_digits(s))
    IN  IF Len(t) > 0 /\ t[1] = 45 THEN 0 - v ELSE v

\* x in y for two strings: y holds x as a substring
str_in_str(x, y) ==
    \E i \in 1..(Len(y) + 1) :
        i + Len(x) - 1 <= Len(y) /\ SubSeq(y, i, i + Len(x) - 1) = x

\* hash(): a deterministic function of the value.  The width is cut to 16
\* bits; distinct values may collide, equal values never differ.
HashWidth == 2 ^ 16

RECURSIVE hash_str(_)
hash_str(s) ==
    IF Len(s) = 0 THEN 0
    ELSE (31 * hash_str(SubSeq(s, 1, Len(s) - 1)) + s[Len(s)]) % HashWidth

hash_True == 1

\* hash of a tuple: a combination of the hashes of its items, in order
RECURSIVE hash_tuple(_)
hash_tuple(hs) ==
    IF Len(hs) = 0 THEN 3430
    ELSE (33 * hash_tuple(SubSeq(hs, 1, Len(hs) - 1)) + hs[Len(hs)]) % HashWidth

(***************************************************************************)
(* tags.py: the class hierarchy and its class attributes                   *)
(***************************************************************************)
PHI_TAG_CLASSES ==
    <<"NameTag", "ProfessionTag", "LocationTag", "AgeTag", "DateTag", "ContactTag",
      "IDTag", "OtherTag">>

VariantClasses == {PHI_TAG_CLASSES[i] : i \in 1..Len(PHI_TAG_CLASSES)}

PHIClasses == {"PHITag"} \cup VariantClasses

\* The base class of a class ("object" above Tag)
Parent(cls) ==
    CASE cls = "Tag" -> "object"
      [] cls = "AnnotatorTag" -> "Tag"
      [] cls = "PHITag" -> "AnnotatorTag"
      [] OTHER -> "PHITag"

\* The method resolution order of a class, the class first
RECURSIVE mro(_)
mro(cls) == IF cls = "object" THEN << >> ELSE <<cls>> \o mro(Parent(cls))

issubclass(c, d) == \E i \in 1..Len(mro(c)) : mro(c)[i] = d

\* The class attribute `key`
key(cls) ==
    IF cls = "AnnotatorTag" THEN <<"name">> ELSE <<"name", "start", "end", "TYPE">>

\* The class attribute `attributes`, in the order of the OrderedDict
attributes(cls) ==
    CASE cls = "AnnotatorTag" -> <<"id", "docid", "start", "end", "text">>
      [] cls = "PHITag" -> <<"id", "docid", "start", "end", "text", "TYPE">>
      [] OTHER -> <<"id", "docid", "start", "end", "text", "TYPE", "comment">>

\* The class attribute valid_TYPE of the list-valued classes
valid_TYPE(cls) ==
    CASE cls = "NameTag" -> {s_PATIENT, s_DOCTOR, s_USERNAME}
      [] cls = "ProfessionTag" -> {s_PROFESSION}
      [] cls = "LocationTag" ->
            {s_ROOM, s_DEPARTMENT, s_HOSPITAL, s_ORGANIZATION, s_STREET, s_CITY,
             s_STATE, s_COUNTRY, s_ZIP, s_LOCATION_OTHER}
      [] cls = "AgeTag" -> {s_AGE}
      [] cls = "DateTag" -> {s_DATE}
      [] cls = "ContactTag" -> {s_PHONE, s_FAX, s_EMAIL, s_URL, s_IPADDR}
      [] cls = "IDTag" ->
            {s_SSN, s_MEDICALRECORD, s_HEALTHPLAN, s_ACCOUNT, s_LICENSE, s_VEHICLE,
             s_DEVICE, s_BIOID, s_IDNUM}
      [] OTHER ->
            {s_PATIENT, s_DOCTOR, s_USERNAME, s_PROFESSION, s_ROOM, s_DEPARTMENT,
             s_HOSPITAL, s_ORGANIZATION, s_STREET, s_CITY, s_STATE, s_COUNTRY, s_ZIP,
             s_OTHER, s_LOCATION_OTHER, s_AGE, s_DATE, s_PHONE, s_FAX, s_EMAIL, s_URL,
             s_IPADDR, s_SSN, s_MEDICALRECORD, s_HEALTHPLAN, s_ACCOUNT, s_LICENSE,
             s_VEHICLE, s_DEVICE, s_BIOID, s_IDNUM}

isint(x) == int_ok(x)

\* attributes[k](v) of class cls.  OtherTag.valid_TYPE is the string 'OTHER',
\* so its `in` is the substring test.
validp(cls, k, v) ==
    CASE k \in {"start", "end"} -> isint(v)
      [] k = "TYPE" ->
            IF cls = "OtherTag" THEN str_in_str(upper(v), s_OTHER)
            ELSE upper(v) \in valid_TYPE(cls)
      [] OTHER -> TRUE

\* PHITag.tag_types: category name -> class
tag_types ==
    {<<s_PHI, "PHITag">>, <<s_NAME, "NameTag">>, <<s_PROFESSION, "ProfessionTag">>,
     <<s_LOCATION, "LocationTag">>, <<s_AGE, "AgeTag">>, <<s_DATE, "DateTag">>,
     <<s_CONTACT, "ContactTag">>, <<s_ID, "IDTag">>, <<s_OTHER, "OtherTag">>}

tag_types_keys == {p[1] : p \in tag_types}

(***************************************************************************)
(* Elements and tag objects.  An attribute the element lacks is Absent;    *)
(* an attribute the object lacks is Unset; None is Python's None.  The     *)
(* three are sequences no string equals, so that every field is a          *)
(* sequence of integers.                                                   *)
(***************************************************************************)
Absent == <<-1>>
Unset == <<-2>>
None == <<-3>>

AttrNames == {"id", "docid", "start", "end", "text", "TYPE", "comment"}

hasattr(t, k) == t[k] # Unset

\* Tag.__init__: name and id from the element
Tag__init__(cls, element) ==
    [cls |-> cls, name |-> element.tag,
     id |-> IF element.attrib["id"] # Absent THEN element.attrib["id"] ELSE s_empty,
     docid |-> Unset, start |-> Unset, end |-> Unset, text |-> Unset, TYPE |-> Unset,
     comment |-> Unset]

\* Mutant of set_attribute: a value that fails its validator is not kept
set_attribute_valid_only(t, element, k) ==
    IF element.attrib[k] # Absent /\ validp(t.cls, k, element.attrib[k])
    THEN [t EXCEPT ![k] = element.attrib[k]]
    ELSE IF \E i \in 1..Len(key(t.cls)) : key(t.cls)[i] = k
         THEN [t EXCEPT ![k] = s_empty]
         ELSE t

\* One turn of the loop of AnnotatorTag.__init__, for attribute k
set_attribute(t, element, k) ==
    IF element.attrib[k] # Absent
    THEN [t EXCEPT ![k] = element.attrib[k]]
    ELSE IF \E i \in 1..Len(key(t.cls)) : key(t.cls)[i] = k
         THEN [t EXCEPT ![k] = s_empty]
         ELSE t

RECURSIVE set_attributes(_, _, _)
set_attributes(t, element, ks) ==
    IF Len(ks) = 0 THEN t
    ELSE set_attributes(set_attribute(t, element, ks[1]), element, SubSeq(ks, 2, Len(ks)))

\* AnnotatorTag.__init__: the object built from an element
AnnotatorTag__init__(cls, element) ==
    set_attributes([Tag__init__(cls, element) EXCEPT !.id = None], element,
                   attributes(cls))

\* The warnings AnnotatorTag.__init__ prints: <<attribute, kind>>
init_warnings(cls, element) ==
    {<<k, "not valid">> : k \in {a \in AttrNames :
        /\ \E i \in 1..Len(attributes(cls)) : attributes(cls)[i] = a
        /\ element.attrib[a] # Absent
        /\ ~validp(cls, a, element.attrib[a])}}
    \cup
    {<<k, "setting to ''">> : k \in {a \in AttrNames :
        /\ \E i \in 1..Len(attributes(cls)) : attributes(cls)[i] = a
        /\ element.attrib[a] = Absent
        /\ \E i \in 1..Len(key(cls)) : key(cls)[i] = a}}

\* getattr(self, k) for the names a key may hold
getattr(t, k) == IF k = "name" THEN t.name ELSE t[k]

\* Mutant of _get_key: the values as they are, letter case kept
_get_key_case_kept(t) == [i \in 1..Len(key(t.cls)) |-> getattr(t, key(t.cls)[i])]

\* _get_key: Tag lowers the values, PHITag and its subclasses upper them
_get_key(t) ==
    [i \in 1..Len(key(t.cls)) |->
        IF issubclass(t.cls, "PHITag") THEN upper(getattr(t, key(t.cls)[i]))
        ELSE lower(getattr(t, key(t.cls)[i]))]

\* Mutant of _key_equality: the other tag's key taken as Tag._get_key builds it
\* (lowered) and not through the override of its class
_key_equality_base_key(self, other) ==
    _get_key(self) = [i \in 1..Len(key(other.cls)) |-> lower(getattr(other, key(other.cls)[i]))]

_key_equality(self, other) ==
    _get_key(self) = _get_key(other) /\ _get_key(other) = _get_key(self)

_key_hash(self) ==
    hash_tuple([i \in 1..Len(_get_key(self)) |-> hash_str(_get_key(self)[i])])

\* OrderedDict(zip(self.key, self._get_key())) with "end" popped: the values left
values_without_end(t) ==
    LET k == key(t.cls)
        idx == {i \in 1..Len(k) : k[i] # "end"}
        RECURSIVE pick(_)
        pick(i) ==
            IF i > Len(k) THEN << >>
            ELSE IF i \in idx THEN <<_get_key(t)[i]>> \o pick(i + 1) ELSE pick(i + 1)
    IN  pick(1)

\* self_dict.pop("end")
popped_end(t) ==
    LET k == key(t.cls)
    IN  _get_key(t)[CHOOSE i \in 1..Len(k) : k[i] = "end"]

\* Mutant of _fuzzy_end__eq__: ends exactly `distance` apart are not equal
_fuzzy_end__eq__below(distance, self, other) ==
    IF ~int_ok(popped_end(self)) \/ ~int_ok(popped_end(other)) THEN "ValueError"
    ELSE LET self_end == int_value(popped_end(self))
             other_end == int_value(popped_end(other))
             diff == IF self_end >= other_end THEN self_end - other_end
                     ELSE other_end - self_end
         IN  IF values_without_end(self) = values_without_end(other) /\ diff < distance
             THEN "True" ELSE "False"

\* _fuzzy_end__eq__ with `distance` scoped in: "True", "False", or the
\* ValueError int() raises
_fuzzy_end__eq__(distance, self, other) ==
    IF ~int_ok(popped_end(self)) \/ ~int_ok(popped_end(other)) THEN "ValueError"
    ELSE LET self_end == int_value(popped_end(self))
             other_end == int_value(popped_end(other))
             diff == IF self_end >= other_end THEN self_end - other_end
                     ELSE other_end - self_end
         IN  IF values_without_end(self) = values_without_end(other) /\ diff <= distance
             THEN "True" ELSE "False"

\* Mutant of _fuzzy_end__hash__: the end stays in the hashed values
_fuzzy_end__hash__with_end(self) ==
    hash_tuple([i \in 1..Len(key(self.cls)) |-> hash_str(_get_key(self)[i])])

\* _fuzzy_end__hash__: self_dict['end'] = True, then the hash of the values
_fuzzy_end__hash__(self) ==
    LET k == key(self.cls)
    IN  hash_tuple([i \in 1..Len(k) |->
            IF k[i] = "end" THEN hash_True ELSE hash_str(_get_key(self)[i])])

(***************************************************************************)
(* State                                                                   *)
(***************************************************************************)
VARIABLES
    pc,         \* where the run is
    \* tags.py: two tags under an equality policy
    policy,     \* class -> the __eq__/__hash__ pair in the class's own __dict__
    installed,  \* history: class -> the latest policy call made on that class
    last_call,  \* history: the latest policy call made on any class
    a, b,       \* the two tag objects compared
    warnings,   \* the warnings printed while a and b were built
    cmp,        \* what a == b, hash(a) and hash(b) returned
    \* evaluate.py: get_predicate_function and the predicate it returns
    arg,        \* the filter value
    pred,       \* what get_predicate_function(arg, PHITag) returned or raised
    ftag,       \* the tag the predicate is applied to
    matched,    \* what the predicate returned for ftag
    \* evaluate.py: evaluate_rdoc's compute_score(X, Y)
    X, Y,       \* the gold and the system labels, one per document
    todo,       \* the values of set(x) the loop has still to visit
    mae_per_score,    \* the list of per-class results
    stats_per_score,  \* value -> (len(x_n), y.count(value), result)
    score,      \* the overall score returned
    \* the Matching Engine and the Evaluation Aggregator
    gold_tags, system_tags,  \* the gold and the system tag sets of the current document
    doc_sets,         \* the true-positive, false-positive, false-negative sets
    doc_metrics,      \* the precision, recall and F1 of the current document
    counts,           \* per document: the sizes of the three sets
    totals,           \* the sizes summed over the documents so far
    report,           \* the micro-averaged precision, recall and F1
    \* evaluate.py: one run of evaluate_rdoc(gold_fld, syst_fld)
    gold_fld, syst_fld,  \* the two folders: XML file name -> its score attribute
    stdout,           \* the lines printed so far
    \* tags.py: one tag built from an element, then asked is_valid()
    xml_element,      \* the element the tag a was built from
    is_valid_result,  \* what a.is_valid() returned
    \* evaluate.py: one call of evaluate(system, gs, eval_class)
    system_paths,     \* system: what each path of the list is on disk
    gs_path,          \* gs: what the path is on disk
    sys_ids,          \* the system ids still to be evaluated
    evaluations,      \* the list of evaluations made
    call_result       \* how the call ended

tagvars == <<policy, installed, last_call, a, b, warnings, cmp>>

filtervars == <<arg, pred, ftag, matched>>

scorevars == <<X, Y, todo, mae_per_score, stats_per_score, score>>

evalvars == <<gold_tags, system_tags, doc_sets, doc_metrics, counts, totals, report>>

rdocvars == <<gold_fld, syst_fld, stdout>>

buildvars == <<xml_element, is_valid_result>>

callvars == <<system_paths, gs_path, sys_ids, evaluations, call_result>>

vars == <<pc, tagvars, filtervars, scorevars, evalvars, rdocvars, buildvars, callvars>>

\* What the steps of one part of the program leave alone
TagFrame == UNCHANGED <<filtervars, scorevars, evalvars, rdocvars, buildvars, callvars>>

FilterFrame == UNCHANGED <<tagvars, scorevars, evalvars, rdocvars, buildvars, callvars>>

ScoreFrame == UNCHANGED <<tagvars, filtervars, evalvars, buildvars, callvars>>

EvalFrame ==
    UNCHANGED <<a, b, warnings, cmp, filtervars, scorevars, rdocvars, buildvars, callvars>>

RdocFrame == UNCHANGED <<gold_fld, syst_fld, tagvars, filtervars, evalvars, buildvars, callvars>>

AllClasses == {"Tag", "AnnotatorTag"} \cup PHIClasses

NoPolicy == [kind |-> "none", distance |-> 0]
Strict == [kind |-> "strict", distance |-> 0]
Fuzzy(d) == [kind |-> "fuzzy", distance |-> d]

NoTag ==
    [cls |-> "none", name |-> Unset, id |-> Unset, docid |-> Unset, start |-> Unset,
     end |-> Unset, text |-> Unset, TYPE |-> Unset, comment |-> Unset]

NoCmp == [eq |-> "none", hash_a |-> -1, hash_b |-> -1]

NoPred == [kind |-> "none", attrs |-> {}, warning |-> FALSE]

FilterIdle == arg = Unset /\ pred = NoPred /\ ftag = NoTag /\ matched = FALSE

\* A fraction n/d in lowest terms, d > 0
RECURSIVE GCD(_, _)
GCD(m, n) == IF n = 0 THEN m ELSE GCD(n, m % n)

Rat(n, d) ==
    LET g == GCD(IF n < 0 THEN 0 - n ELSE n, d)
    IN  [num |-> n \div g, den |-> d \div g]

RatAdd(p, q) == Rat(p.num * q.den + q.num * p.den, p.den * q.den)

RatSub(p, q) == Rat(p.num * q.den - q.num * p.den, p.den * q.den)

RatMul(p, q) == Rat(p.num * q.num, p.den * q.den)

\* p / n for an integer n > 0
RatDivInt(p, n) == Rat(p.num, p.den * n)

NoStat == [present |-> FALSE, gold |-> 0, syst |-> 0, result |-> Rat(0, 1)]

ScoreIdle ==
    /\ X = << >> /\ Y = << >> /\ todo = {}
    /\ mae_per_score = << >>
    /\ stats_per_score = [v \in 0..3 |-> NoStat]
    /\ score = Rat(0, 1)

NoCounts == [tp |-> 0, fp |-> 0, fn |-> 0]

NoReport == [precision |-> Rat(0, 1), recall |-> Rat(0, 1), f1 |-> Rat(0, 1)]

RdocIdle == gold_fld = << >> /\ syst_fld = << >> /\ stdout = << >>

BuildIdle == xml_element = << >> /\ is_valid_result = "none"

CallIdle ==
    /\ system_paths = << >> /\ gs_path = "none" /\ sys_ids = {}
    /\ evaluations = << >> /\ call_result = "none"

EvalIdle ==
    /\ gold_tags = {} /\ system_tags = {}
    /\ doc_sets = [tp |-> {}, fp |-> {}, fn |-> {}]
    /\ doc_metrics = NoReport
    /\ counts = << >>
    /\ totals = NoCounts
    /\ report = NoReport

\* Tag defines __eq__ and __hash__ in its class body (both go through the
\* key); no other class defines them until a policy call is made on it.
TagInit ==
    /\ policy = [c \in AllClasses |-> IF c = "Tag" THEN Strict ELSE NoPolicy]
    /\ installed = [c \in AllClasses |-> NoPolicy]
    /\ last_call = NoPolicy
    /\ a = NoTag
    /\ b = NoTag
    /\ warnings = {}
    /\ cmp = NoCmp

(***************************************************************************)
(* The equality policy                                                     *)
(***************************************************************************)
\* Mutant of strict_equality: the methods are rebound on the base class Tag,
\* not on cls
strict_equality_on_Tag(cls) ==
    /\ pc = "policy"
    /\ policy' = [policy EXCEPT !["Tag"] = Strict]
    /\ installed' = [installed EXCEPT ![cls] = Strict]
    /\ last_call' = Strict
    /\ UNCHANGED <<pc, a, b, warnings, cmp>>
    /\ TagFrame

\* Tag.strict_equality, a classmethod: cls.__eq__ and cls.__hash__ are rebound
strict_equality(cls) ==
    /\ pc = "policy"
    /\ policy' = [policy EXCEPT ![cls] = Strict]
    /\ installed' = [installed EXCEPT ![cls] = Strict]
    /\ last_call' = Strict
    /\ UNCHANGED <<pc, a, b, warnings, cmp>>
    /\ TagFrame

\* AnnotatorTag.fuzzy_end_equality, a classmethod
fuzzy_end_equality(cls, distance) ==
    /\ pc = "policy"
    /\ issubclass(cls, "AnnotatorTag")
    /\ policy' = [policy EXCEPT ![cls] = Fuzzy(distance)]
    /\ installed' = [installed EXCEPT ![cls] = Fuzzy(distance)]
    /\ last_call' = Fuzzy(distance)
    /\ UNCHANGED <<pc, a, b, warnings, cmp>>
    /\ TagFrame

\* Attribute lookup of __eq__ / __hash__ on type(x): the first class of the
\* method resolution order that holds one
RECURSIVE lookup(_, _)
lookup(pol, cls) ==
    IF pol[cls].kind # "none" THEN pol[cls] ELSE lookup(pol, Parent(cls))

apply_eq(p, self, other) ==
    IF p.kind = "strict"
    THEN IF _key_equality(self, other) THEN "True" ELSE "False"
    ELSE _fuzzy_end__eq__(p.distance, self, other)

\* x == y.  When type(y) is a proper subclass of type(x), Python tries the
\* reflected y.__eq__(x) first.
tag_eq(pol, x, y) ==
    IF x.cls # y.cls /\ issubclass(y.cls, x.cls)
    THEN apply_eq(lookup(pol, y.cls), y, x)
    ELSE apply_eq(lookup(pol, x.cls), x, y)

\* hash(x)
tag_hash(pol, x) ==
    IF lookup(pol, x.cls).kind = "strict" THEN _key_hash(x) ELSE _fuzzy_end__hash__(x)

(***************************************************************************)
(* Building and comparing two tags                                         *)
(***************************************************************************)
MkElement(tag, id, start, end, TYPE, text) ==
    [tag |-> tag,
     attrib |-> [k \in AttrNames |->
        CASE k = "id" -> id
          [] k = "start" -> start
          [] k = "end" -> end
          [] k = "TYPE" -> TYPE
          [] k = "text" -> text
          [] OTHER -> Absent]]

\* a = cls(element)
BuildA(cls, element) ==
    /\ pc = "policy"
    /\ pc' = "built_a"
    /\ a' = AnnotatorTag__init__(cls, element)
    /\ warnings' = {<<"a", w>> : w \in init_warnings(cls, element)}
    /\ UNCHANGED <<policy, installed, last_call, b, cmp>>
    /\ TagFrame

\* b = cls(element)
BuildB(cls, element) ==
    /\ pc = "built_a"
    /\ pc' = "built"
    /\ b' = AnnotatorTag__init__(cls, element)
    /\ warnings' = warnings \cup {<<"b", w>> : w \in init_warnings(cls, element)}
    /\ UNCHANGED <<policy, installed, last_call, a, cmp>>
    /\ TagFrame

\* a == b
CompareTags ==
    /\ pc = "built"
    /\ pc' = "compared"
    /\ cmp' = [cmp EXCEPT !.eq = tag_eq(policy, a, b)]
    /\ UNCHANGED <<policy, installed, last_call, a, b, warnings>>
    /\ TagFrame

\* hash(a), hash(b)
HashTags ==
    /\ pc = "compared"
    /\ pc' = "hashed"
    /\ cmp' = [cmp EXCEPT !.hash_a = tag_hash(policy, a), !.hash_b = tag_hash(policy, b)]
    /\ UNCHANGED <<policy, installed, last_call, a, b, warnings>>
    /\ TagFrame

(***************************************************************************)
(* Spec: one policy for all PHI tags, set on PHITag before two tags are    *)
(* built, compared and hashed                                              *)
(***************************************************************************)
MaxDistance == 1

Distances == 0..MaxDistance

ElementsA ==
    {MkElement(n, s_P1, s_10, e, s_DATE, Absent) :
        n \in {s_DATE, s_Date_mixed}, e \in {s_12, s_1a, Absent}}

ElementsB ==
    {MkElement(x[1], Absent, x[2], x[3], x[4], s_FOO) :
        x \in {s_DATE, s_date_lower, s_NAME}
              \X {s_10, s_11, Absent}
              \X {s_12, s_13, s_14, s_012, s_1a, Absent}
              \X {s_DATE, s_date_lower, s_AGE, Absent}}

Init ==
    pc = "policy" /\ TagInit /\ FilterIdle /\ ScoreIdle /\ EvalIdle /\ RdocIdle /\ BuildIdle
        /\ CallIdle

SetStrict == strict_equality("PHITag")

SetFuzzy == \E d \in Distances : fuzzy_end_equality("PHITag", d)

NewA == \E cls \in {"PHITag", "DateTag"}, el \in ElementsA : BuildA(cls, el)

NewB == \E cls \in {"PHITag", "DateTag"}, el \in ElementsB : BuildB(cls, el)

Next == SetStrict \/ SetFuzzy \/ NewA \/ NewB \/ CompareTags \/ HashTags

Spec == Init /\ [][Next]_vars

(***************************************************************************)
(* Claims about the two equality policies (checked under Spec)             *)
(***************************************************************************)
\* Both tags are compared under policy kind k
BothUnder(k) == lookup(policy, a.cls).kind = k /\ lookup(policy, b.cls).kind = k

\* Attribute k has the same value in a and b, letter case aside
SameIgnoringCase(k) == lower(getattr(a, k)) = lower(getattr(b, k))

AbsDiff(x, y) == IF x >= y THEN x - y ELSE y - x

\* The hash of the full case-normalised key tuple (category, start, end, TYPE)
FullKeyHash(t) ==
    hash_tuple(<<hash_str(upper(t.name)), hash_str(upper(t.start)),
                 hash_str(upper(t.end)), hash_str(upper(t.TYPE))>>)

\* C1: under the fuzzy-end policy with tolerance d, a == b holds if and only
\* if category, start and TYPE are equal after case normalisation and the two
\* ends, read as integers, differ by at most d.
C1_FuzzyEndEquality ==
    (pc \in {"compared", "hashed"} /\ BothUnder("fuzzy")) =>
        ((cmp.eq = "True") <=>
            /\ \A k \in {"name", "start", "TYPE"} : SameIgnoringCase(k)
            /\ int_ok(a.end) /\ int_ok(b.end)
            /\ AbsDiff(int_value(a.end), int_value(b.end))
                   <= lookup(policy, a.cls).distance)

\* C1 witness: two tags that differ in the case of the category and by exactly
\* the tolerance in end were compared and found equal.
C1_Witness ==
    /\ pc = "compared" /\ BothUnder("fuzzy")
    /\ lookup(policy, a.cls).distance = 1
    /\ a.name = s_Date_mixed /\ b.name = s_date_lower
    /\ a.end = s_12 /\ b.end = s_13
    /\ cmp.eq = "True"

\* C2: under the strict policy, a == b holds if and only if category, start,
\* end and TYPE are equal compared case-insensitively; the hash is the hash
\* of the full case-normalised key tuple, so equal tags have equal hashes.
C2_StrictEqualityAndHash ==
    (pc \in {"compared", "hashed"} /\ BothUnder("strict")) =>
        /\ cmp.eq \in {"True", "False"}
        /\ (cmp.eq = "True") <=>
               \A k \in {"name", "start", "end", "TYPE"} : SameIgnoringCase(k)
        /\ pc = "hashed" =>
               /\ cmp.hash_a = FullKeyHash(a)
               /\ cmp.hash_b = FullKeyHash(b)
               /\ (cmp.eq = "True" => cmp.hash_a = cmp.hash_b)

\* C2 witness: two tags whose category and TYPE differ only in letter case
\* were compared under the strict policy, found equal, and hashed.
C2_Witness ==
    /\ pc = "hashed" /\ BothUnder("strict")
    /\ a.name = s_Date_mixed /\ b.name = s_date_lower
    /\ a.TYPE = s_DATE /\ b.TYPE = s_date_lower
    /\ a.id # b.id
    /\ cmp.eq = "True" /\ cmp.hash_a = cmp.hash_b

\* C3: under the fuzzy-end policy two tags whose key attributes other than
\* end are identical have the same hash whatever their ends are; hence tags
\* found equal have the same hash, for every tolerance.
C3_FuzzyHashIgnoresEnd ==
    (pc = "hashed" /\ BothUnder("fuzzy")) =>
        /\ (\A k \in {"name", "start", "TYPE"} : SameIgnoringCase(k))
               => cmp.hash_a = cmp.hash_b
        /\ cmp.eq = "True" => cmp.hash_a = cmp.hash_b

\* C3 witness: two tags with ends 12 and 14, too far apart to be equal, were
\* hashed under the fuzzy-end policy to the same value.
C3_Witness ==
    /\ pc = "hashed" /\ BothUnder("fuzzy")
    /\ a.end = s_12 /\ b.end = s_14
    /\ cmp.eq = "False"
    /\ cmp.hash_a = cmp.hash_b

(***************************************************************************)
(* SpecPolicy: policy calls on any class of the hierarchy, then two tags   *)
(* of one class are built, compared and hashed                             *)
(***************************************************************************)
MaxVariants == 2

PolicyVariants == {PHI_TAG_CLASSES[i] : i \in 1..MaxVariants}

PolicyTargets == {"Tag", "AnnotatorTag", "PHITag"} \cup PolicyVariants

\* The two tolerances told apart by the ends 12, 012 and 13
PolicyDistances == {0, 1}

PolicyElementA == MkElement(s_DATE, s_P1, s_10, s_12, s_DATE, Absent)

PolicyElementsB == {MkElement(s_DATE, Absent, s_10, e, s_DATE, Absent) : e \in {s_012, s_13}}

PolicySetStrict == \E cls \in PolicyTargets : strict_equality(cls)

PolicySetFuzzy == \E cls \in PolicyTargets, d \in PolicyDistances : fuzzy_end_equality(cls, d)

PolicyNewA == \E cls \in {"PHITag"} \cup PolicyVariants : BuildA(cls, PolicyElementA)

PolicyNewB == \E el \in PolicyElementsB : BuildB(a.cls, el)

NextPolicy ==
    PolicySetStrict \/ PolicySetFuzzy \/ PolicyNewA \/ PolicyNewB \/ CompareTags \/ HashTags

SpecPolicy == Init /\ [][NextPolicy]_vars

\* The policy of the latest call made on any class (strict before any call)
LatestCall == IF last_call.kind = "none" THEN Strict ELSE last_call

\* The policy of the latest call made on the nearest class, from cls up its
\* base classes, on which any call was made (strict when there is none)
NearestInstalled(cls) ==
    LET chain == mro(cls)
        called == {i \in 1..Len(chain) : installed[chain[i]].kind # "none"}
    IN  IF called = {} THEN Strict
        ELSE installed[chain[CHOOSE i \in called : \A j \in called : i <= j]]

\* What a == b, hash(a), hash(b) return under policy p
ResultsUnder(p) ==
    [eq |-> apply_eq(p, a, b),
     hash_a |-> IF p.kind = "strict" THEN _key_hash(a) ELSE _fuzzy_end__hash__(a),
     hash_b |-> IF p.kind = "strict" THEN _key_hash(b) ELSE _fuzzy_end__hash__(b)]

\* C4 as claimed: whatever classes the calls were made on, the tags of every
\* variant compare and hash under the policy of the most recent call.
C4_ProcessWide ==
    /\ pc \in {"compared", "hashed"} => cmp.eq = ResultsUnder(LatestCall).eq
    /\ pc = "hashed" => cmp = ResultsUnder(LatestCall)

\* C4 amended: the tags of a class compare and hash under the most recent
\* call made on the nearest class, among the class and its base classes, on
\* which a policy call was made (strict when no call was made on any).
C4_NearestClassPolicy ==
    /\ pc \in {"compared", "hashed"} => cmp.eq = ResultsUnder(NearestInstalled(a.cls)).eq
    /\ pc = "hashed" => cmp = ResultsUnder(NearestInstalled(a.cls))

\* C4 witness: fuzzy-end was set on NameTag, strict was then set on PHITag,
\* and two NameTag objects with ends 12 and 13 still compared equal.
C4_Witness ==
    /\ pc = "hashed"
    /\ a.cls = "NameTag" /\ b.end = s_13
    /\ installed["NameTag"] = Fuzzy(1)
    /\ installed["PHITag"] = Strict
    /\ last_call = Strict
    /\ cmp.eq = "True"

(***************************************************************************)
(* evaluate.py: get_predicate_function(arg, PHITag) and its predicate      *)
(***************************************************************************)
\* The names bound at module level in evaluate.py: its imports and its
\* functions
module_globals ==
    {"argparse", "defaultdict", "glob", "os", "etree", "warnings", "np", "wilcoxon",
     "StandoffAnnotation", "Evaluate", "CombinedEvaluation", "PHITrackEvaluation",
     "PHITag", "get_predicate_function", "get_document_dict_by_system_id",
     "evaluate", "evaluate_rdoc"}

\* Mutant of matchp: the category is compared as it is, letter case kept
matchp_exact_name(attrs, value, tag) ==
    \E attr \in attrs :
        IF attr = "name" THEN tag.name = value
        ELSE /\ hasattr(tag, attr)
             /\ tag[attr] # None
             /\ lower(tag[attr]) = lower(value)

\* matchp(t), with attrs and arg scoped in.  getattr(t, attr).lower() raises
\* AttributeError, which is passed over, when the attribute is unset or None.
matchp(attrs, value, tag) ==
    \E attr \in attrs :
        \/ attr = "name" /\ tag.name = value
        \/ /\ attr = "name" \/ hasattr(tag, attr)
           /\ getattr(tag, attr) # None
           /\ lower(getattr(tag, attr)) = lower(value)

\* The class attributes the loop of get_predicate_function looks for
tag_attributes ==
    {"valid_type1", "valid_type2", "valid_indicator", "valid_status", "valid_time",
     "valid_type"}

\* The list `attrs` at line 169 of get_predicate_function, or the NameError
\* raised on the way.  A value that is no key of tag_types reaches the loop
\* over MEDICAL_TAG_CLASSES, a name evaluate.py never binds; there is no
\* class for the loop to take an attribute from.
resolve_attrs(value) ==
    IF value \in tag_types_keys THEN [raised |-> "", attrs |-> {"name"}]
    ELSE IF "MEDICAL_TAG_CLASSES" \notin module_globals
         THEN [raised |-> "NameError", attrs |-> {}]
         ELSE [raised |-> "", attrs |-> {at \in tag_attributes : FALSE}]

\* get_predicate_function(arg, PHITag): the predicate returned, or the error
\* raised
get_predicate_function(value) ==
    LET r == resolve_attrs(value)
    IN  IF r.raised # "" THEN [kind |-> r.raised, attrs |-> {}, warning |-> FALSE]
        ELSE IF Cardinality(r.attrs) = 0
             THEN [kind |-> "always_true", attrs |-> {}, warning |-> TRUE]
             ELSE [kind |-> "matchp", attrs |-> r.attrs, warning |-> FALSE]

\* The predicate applied to a tag
apply_predicate(p, value, tag) ==
    IF p.kind = "always_true" THEN TRUE ELSE matchp(p.attrs, value, tag)

\* filters = [get_predicate_function(a, PHITag) for a in args.filter.split(",")]
GetPredicate(value) ==
    /\ pc = "filter"
    /\ arg' = value
    /\ pred' = get_predicate_function(value)
    /\ pc' = IF get_predicate_function(value).kind = "NameError" THEN "raised"
             ELSE "predicate"
    /\ UNCHANGED <<ftag, matched>>
    /\ FilterFrame

\* The predicate is called on a tag of a document
ApplyPredicate(cls, element) ==
    /\ pc = "predicate"
    /\ pc' = "applied"
    /\ ftag' = AnnotatorTag__init__(cls, element)
    /\ matched' = apply_predicate(pred, arg, AnnotatorTag__init__(cls, element))
    /\ UNCHANGED <<arg, pred>>
    /\ FilterFrame

FilterValues ==
    {s_DATE, s_date_lower, s_Date_mixed, s_NAME, s_PHI, s_CONTACT, s_AGE, s_OTHER,
     s_PHONE, s_phone_lower, s_FOO, s_empty}

FilterElements ==
    {MkElement(x[1], s_P1, s_10, s_12, x[2], Absent) :
        x \in {s_DATE, s_Date_mixed, s_date_lower, s_NAME, s_CONTACT, s_AGE}
              \X {s_DATE, s_PHONE, s_phone_lower, s_AGE, Absent}}

InitFilter ==
    pc = "filter" /\ TagInit /\ FilterIdle /\ ScoreIdle /\ EvalIdle /\ RdocIdle /\ BuildIdle
        /\ CallIdle

NewPredicate == \E value \in FilterValues : GetPredicate(value)

CallPredicate ==
    \E cls \in {"PHITag", "DateTag", "ContactTag"}, el \in FilterElements :
        ApplyPredicate(cls, el)

NextFilter == NewPredicate \/ CallPredicate

SpecFilter == InitFilter /\ [][NextFilter]_vars

\* The value is in the valid_TYPE vocabulary of class cls
InTypeVocabulary(value, cls) ==
    IF cls = "OtherTag" THEN value = s_OTHER ELSE value \in valid_TYPE(cls)

\* get_predicate_function has returned or raised
FilterResolved == pc \in {"predicate", "raised", "applied"}

\* C7: a value that is no category name but is in the TYPE vocabulary of a
\* registered variant resolves to TYPE: no error is raised, the predicate is
\* not the always-true one, and it is true exactly for the tags whose TYPE
\* equals the value.
C7_TypeValueResolves ==
    (/\ FilterResolved
     /\ arg \notin tag_types_keys
     /\ \E cls \in VariantClasses : InTypeVocabulary(arg, cls)) =>
        /\ pred.kind = "matchp"
        /\ "TYPE" \in pred.attrs
        /\ pc = "applied" => (matched <=> lower(ftag.TYPE) = lower(arg))

\* C8: the predicate built for a value is true for a tag exactly when some
\* resolved attribute of the tag equals the value compared case-insensitively,
\* the category included.
C8_PredicateIgnoresCase ==
    (pc = "applied" /\ pred.kind = "matchp") =>
        (matched <=>
            \E attr \in pred.attrs :
                IF attr = "name" THEN lower(ftag.name) = lower(arg)
                ELSE /\ ftag[attr] \notin {Unset, None}
                     /\ lower(ftag[attr]) = lower(arg))

\* C8 witness: the predicate for "DATE" was true for a tag of category "Date".
C8_Witness ==
    /\ pc = "applied" /\ pred.kind = "matchp"
    /\ pred.attrs = {"name"}
    /\ arg = s_DATE /\ ftag.name = s_Date_mixed
    /\ matched

\* C9: a value that resolves to no attribute (no category name, in no
\* vocabulary) gives a warning and the always-true predicate, not an error.
C9_UnresolvedValueWarns ==
    (/\ FilterResolved
     /\ arg \notin tag_types_keys
     /\ \A cls \in PHIClasses : ~InTypeVocabulary(arg, cls)) =>
        /\ pred.kind = "always_true"
        /\ pred.warning
        /\ pc = "applied" => matched

(***************************************************************************)
(* evaluate.py: evaluate_rdoc's ordinal scoring.  Scores are exact         *)
(* fractions.                                                              *)
(***************************************************************************)
level2score == {<<s_ABSENT, 0>>, <<s_MILD, 1>>, <<s_MODERATE, 2>>, <<s_SEVERE, 3>>}

Labels == {p[2] : p \in level2score}

RECURSIVE sum_abs_errors(_, _)
sum_abs_errors(gold, system) ==
    IF Len(gold) = 0 THEN 0
    ELSE (IF system[1] >= gold[1] THEN system[1] - gold[1] ELSE gold[1] - system[1])
         + sum_abs_errors(SubSeq(gold, 2, Len(gold)), SubSeq(system, 2, Len(system)))

\* mean_absolute_error: np.average(np.abs(system - gold)), of non-empty arrays
mean_absolute_error(gold, system) == Rat(sum_abs_errors(gold, system), Len(gold))

\* [(a, b) for a, b in zip(x, y) if a == v]
RECURSIVE filter_pairs(_, _, _)
filter_pairs(x, y, v) ==
    IF Len(x) = 0 \/ Len(y) = 0 THEN << >>
    ELSE (IF x[1] = v THEN <<<<x[1], y[1]>>>> ELSE << >>)
         \o filter_pairs(SubSeq(x, 2, Len(x)), SubSeq(y, 2, Len(y)), v)

\* y.count(v)
count(y, v) == Cardinality({i \in 1..Len(y) : y[i] = v})

\* Mutant of normalisation_factor: every class is normalised by 2
normalisation_factor_2(v) == 2

\* Mutant of normalisation_factor: every class is normalised by 3
normalisation_factor_3(v) == 3

\* The normalisation factor of the class of gold value v
normalisation_factor(v) == IF v \in {0, 3} THEN 3 ELSE 2

\* The body of the loop of compute_score for the gold value v: result
class_result(x, y, v) ==
    LET pairs == filter_pairs(x, y, v)
        x_n == [i \in 1..Len(pairs) |-> pairs[i][1]]
        y_n == [i \in 1..Len(pairs) |-> pairs[i][2]]
    IN  RatMul(Rat(100, 1),
               RatSub(Rat(1, 1),
                      RatDivInt(mean_absolute_error(x_n, y_n), normalisation_factor(v))))

RECURSIVE sum(_)
sum(rs) == IF Len(rs) = 0 THEN Rat(0, 1) ELSE RatAdd(rs[1], sum(SubSeq(rs, 2, Len(rs))))

\* X and Y grow by the labels of one more document pair.  Documents are
\* taken in the order of their gold labels.
NextDocument(x, y) ==
    /\ pc = "reading"
    /\ IF Len(X) = 0 THEN TRUE ELSE X[Len(X)] <= x
    /\ X' = Append(X, x)
    /\ Y' = Append(Y, y)
    /\ UNCHANGED <<pc, todo, mae_per_score, stats_per_score, score, rdocvars>>
    /\ ScoreFrame

\* compute_score(X, Y) is entered: the loop starts over set(x)
ComputeScoreEnter ==
    /\ pc \in {"reading", "labels_read"}
    /\ pc' = "loop"
    /\ todo' = {X[i] : i \in 1..Len(X)}
    /\ UNCHANGED <<X, Y, mae_per_score, stats_per_score, score, rdocvars>>
    /\ ScoreFrame

\* One turn of `for score in set(x)`: a set of small integers is visited in
\* increasing order
ComputeScoreClass ==
    /\ pc = "loop"
    /\ todo # {}
    /\ LET v == CHOOSE w \in todo : \A u \in todo : w <= u
           result == class_result(X, Y, v)
       IN  /\ mae_per_score' = Append(mae_per_score, result)
           /\ stats_per_score' =
                  [stats_per_score EXCEPT ![v] =
                      [present |-> TRUE, gold |-> Len(filter_pairs(X, Y, v)),
                       syst |-> count(Y, v), result |-> result]]
           /\ todo' = todo \ {v}
    /\ UNCHANGED <<pc, X, Y, score, rdocvars>>
    /\ ScoreFrame

\* score = sum(mae_per_score) / len(set(x)); the division by zero of an empty
\* x raises ZeroDivisionError
ComputeScoreReturn ==
    /\ pc = "loop"
    /\ todo = {}
    /\ LET n == Cardinality({X[i] : i \in 1..Len(X)})
       IN  IF n = 0
           THEN pc' = "raised" /\ score' = score
           ELSE pc' = "scored" /\ score' = RatDivInt(sum(mae_per_score), n)
    /\ UNCHANGED <<X, Y, todo, mae_per_score, stats_per_score, rdocvars>>
    /\ ScoreFrame

MaxDocs == 4

InitScore ==
    pc = "reading" /\ TagInit /\ FilterIdle /\ ScoreIdle /\ EvalIdle /\ RdocIdle /\ BuildIdle
        /\ CallIdle

ReadLabels == \E x \in Labels, y \in Labels : Len(X) < MaxDocs /\ NextDocument(x, y)

NextScore == ReadLabels \/ ComputeScoreEnter \/ ComputeScoreClass \/ ComputeScoreReturn

SpecScore == InitScore /\ [][NextScore]_vars

\* The number of positions of X that hold v
Support(v) == Cardinality({i \in 1..Len(X) : X[i] = v})

\* The sum of |Y[i] - X[i]| over the positions i of a set
RECURSIVE ErrorOver(_)
ErrorOver(I) ==
    IF I = {} THEN 0
    ELSE LET i == CHOOSE j \in I : TRUE
         IN  AbsDiff(Y[i], X[i]) + ErrorOver(I \ {i})

ClassError(v) == ErrorOver({i \in 1..Len(X) : X[i] = v})

\* N_v: 3 for the extreme labels, 2 for the interior ones
WorstError(v) == IF v = 0 \/ v = 3 THEN 3 ELSE 2

Present == {v \in 0..3 : Support(v) > 0}

\* The product of Support(v) * WorstError(v) over a set of values
RECURSIVE DenomProduct(_)
DenomProduct(V) ==
    IF V = {} THEN 1
    ELSE LET v == CHOOSE w \in V : TRUE
         IN  Support(v) * WorstError(v) * DenomProduct(V \ {v})

\* The sum over v of (D_v - S_v) * (L / D_v), with D_v = Support * WorstError
RECURSIVE ScaledSum(_, _)
ScaledSum(V, L) ==
    IF V = {} THEN 0
    ELSE LET v == CHOOSE w \in V : TRUE
             D == Support(v) * WorstError(v)
         IN  (D - ClassError(v)) * (L \div D) + ScaledSum(V \ {v}, L)

\* C10: the score of each value v present in X is 100 * (1 - MAE_v / N_v),
\* the overall score is the unweighted mean of the per-class scores, and
\* X = [0,0,3,3], Y = [0,1,3,2] scores 250/3 (83.33) for class 0, class 3 and
\* overall.
C10_OrdinalScore ==
    pc = "scored" =>
        /\ \A v \in 0..3 : stats_per_score[v].present <=> v \in Present
        /\ \A v \in Present :
              /\ stats_per_score[v].result.den > 0
              /\ stats_per_score[v].result.num * (Support(v) * WorstError(v))
                     = stats_per_score[v].result.den
                           * 100 * (Support(v) * WorstError(v) - ClassError(v))
        /\ score.den > 0
        /\ score.num * DenomProduct(Present) * Cardinality(Present)
               = score.den * 100 * ScaledSum(Present, DenomProduct(Present))
        /\ (X = <<0, 0, 3, 3>> /\ Y = <<0, 1, 3, 2>>) =>
              /\ stats_per_score[0].result = [num |-> 250, den |-> 3]
              /\ stats_per_score[3].result = [num |-> 250, den |-> 3]
              /\ score = [num |-> 250, den |-> 3]

\* C10 witness: the example of the specification was scored.
C10_Witness ==
    /\ pc = "scored"
    /\ X = <<0, 0, 3, 3>> /\ Y = <<0, 1, 3, 2>>
    /\ score = [num |-> 250, den |-> 3]

(***************************************************************************)
(* Matching Engine and Evaluation Aggregator.  Their code (classes.py) is  *)
(* not among the sources; they are modelled from sections 4.3 and 4.5 of   *)
(* the specification, over tags built and compared as tags.py does.        *)
(***************************************************************************)
\* The tags of the documents; a tag set holds their numbers in this list
EvalTag ==
    <<AnnotatorTag__init__("DateTag", MkElement(s_DATE, s_P1, s_10, s_12, s_DATE, Absent)),
      AnnotatorTag__init__("DateTag",
                           MkElement(s_date_lower, Absent, s_10, s_12, s_date_lower, s_FOO)),
      AnnotatorTag__init__("DateTag",
                           MkElement(s_Date_mixed, s_P1, s_10, s_13, s_DATE, Absent)),
      AnnotatorTag__init__("NameTag", MkElement(s_NAME, s_P1, s_11, s_14, s_PATIENT, Absent))>>

\* The policies of a run in which only PHITag had a policy set, p
PolicyWith(p) ==
    [c \in AllClasses |-> IF c = "Tag" THEN Strict ELSE IF c = "PHITag" THEN p ELSE NoPolicy]

\* <<p, i, j>>: with the policy p set on PHITag, EvalTag[i] == EvalTag[j] is True
\* (the comparisons are made once, for every policy and pair of tags)
equal_tags ==
    {<<tr[1], tr[2], tr[3]>> :
        tr \in {x \in ({NoPolicy, Strict} \cup {Fuzzy(d) : d \in Distances})
                        \X (DOMAIN EvalTag) \X (DOMAIN EvalTag) :
                    tag_eq(PolicyWith(x[1]), EvalTag[x[2]], EvalTag[x[3]]) = "True"}}

\* The three sets of one document: gold /\ system, system - gold, gold - system,
\* membership decided by == under the active policy
match_tags(pol, G, S) ==
    [tp |-> {g \in G : \E t \in S : <<pol["PHITag"], g, t>> \in equal_tags},
     fp |-> {t \in S : ~ \E g \in G : <<pol["PHITag"], t, g>> \in equal_tags},
     fn |-> {g \in G : ~ \E t \in S : <<pol["PHITag"], g, t>> \in equal_tags}]

\* p / q for q # 0
RatDiv(p, q) == Rat(p.num * q.den, p.den * q.num)

\* TP / (TP + FP), 0 when the denominator is 0
precision(ntp, nfp) == IF ntp + nfp = 0 THEN Rat(0, 1) ELSE Rat(ntp, ntp + nfp)

\* TP / (TP + FN), 0 when the denominator is 0
recall(ntp, nfn) == IF ntp + nfn = 0 THEN Rat(0, 1) ELSE Rat(ntp, ntp + nfn)

\* 2 P R / (P + R), 0 when the denominator is 0
F1(p, r) ==
    IF RatAdd(p, r).num = 0 THEN Rat(0, 1)
    ELSE RatDiv(RatMul(Rat(2, 1), RatMul(p, r)), RatAdd(p, r))

metrics(c) ==
    [precision |-> precision(c.tp, c.fp),
     recall |-> recall(c.tp, c.fn),
     f1 |-> F1(precision(c.tp, c.fp), recall(c.tp, c.fn))]

\* Mutant of accumulate: the global counts overwritten by the document's
accumulate_overwrite(tot, c) == c

\* The global counts after one more document
accumulate(tot, c) ==
    [tp |-> tot.tp + c.tp, fp |-> tot.fp + c.fp, fn |-> tot.fn + c.fn]

MaxCorpus == 2

\* One document: match its two tag sets, keep the counts per document and globally
EvaluateDocument(G, S) ==
    /\ pc \in {"policy", "eval"}
    /\ Len(counts) < MaxCorpus
    /\ LET m == match_tags(policy, G, S)
           c == [tp |-> Cardinality(m.tp), fp |-> Cardinality(m.fp),
                 fn |-> Cardinality(m.fn)]
       IN  /\ gold_tags' = G
           /\ system_tags' = S
           /\ doc_sets' = m
           /\ doc_metrics' = metrics(c)
           /\ counts' = Append(counts, c)
           /\ totals' = accumulate(totals, c)
    /\ pc' = "eval"
    /\ UNCHANGED <<policy, installed, last_call, report>>
    /\ EvalFrame

\* The aggregate report: the metrics of the summed counts
PrintReport ==
    /\ pc \in {"policy", "eval"}
    /\ report' = metrics(totals)
    /\ pc' = "reported"
    /\ UNCHANGED <<policy, installed, last_call, gold_tags, system_tags, doc_sets,
                   doc_metrics, counts, totals>>
    /\ EvalFrame

(***************************************************************************)
(* Specification SpecEval: an equality policy is chosen for PHITag, then   *)
(* up to MaxCorpus documents are matched and the report is made            *)
(***************************************************************************)
\* The sets of tags a Python set can hold: no two members equal
TagSets(pol, U) ==
    {T \in SUBSET U :
        \A x \in T, y \in T : x # y => <<pol["PHITag"], x, y>> \notin equal_tags}

NextDocumentPair ==
    \E G \in TagSets(policy, {2, 3, 4}), S \in TagSets(policy, {1, 3, 4}) :
        EvaluateDocument(G, S)

NextEval == SetStrict \/ SetFuzzy \/ NextDocumentPair \/ PrintReport

SpecEval == Init /\ [][NextEval]_vars

(***************************************************************************)
(* Claims about the Matching Engine and the Aggregator (under SpecEval)    *)
(***************************************************************************)
\* Tags i and j are equal under the active policy
EqualNow(i, j) == <<policy["PHITag"], i, j>> \in equal_tags

StrictNow == lookup(policy, "PHITag").kind = "strict"

Zero == [num |-> 0, den |-> 1]

\* C5: after a document is matched, the true positives are the gold tags with
\* an equal system tag, the false positives the system tags with no equal gold
\* tag, the false negatives the gold tags with no equal system tag; a set
\* matched against itself under strict equality gives TP = |S|, FP = FN = 0;
\* disjoint non-empty sets give TP = 0, FP = |system|, FN = |gold| and
\* precision = recall = 0.
C5_MatchingEngine ==
    pc = "eval" =>
        /\ doc_sets.tp \subseteq gold_tags
        /\ doc_sets.fn = gold_tags \ doc_sets.tp
        /\ doc_sets.fp \subseteq system_tags
        /\ \A g \in gold_tags : g \in doc_sets.tp <=> \E t \in system_tags : EqualNow(g, t)
        /\ \A t \in system_tags : t \in doc_sets.fp <=> \A g \in gold_tags : ~ EqualNow(g, t)
        /\ (StrictNow /\ gold_tags = system_tags) =>
              /\ Cardinality(doc_sets.tp) = Cardinality(system_tags)
              /\ doc_sets.fp = {} /\ doc_sets.fn = {}
        /\ (/\ gold_tags # {} /\ system_tags # {}
            /\ \A g \in gold_tags, t \in system_tags : ~ EqualNow(g, t)) =>
              /\ doc_sets.tp = {}
              /\ Cardinality(doc_sets.fp) = Cardinality(system_tags)
              /\ Cardinality(doc_sets.fn) = Cardinality(gold_tags)
              /\ doc_metrics.precision = Zero /\ doc_metrics.recall = Zero

\* A set of two tags was matched against itself, then two gold tags against
\* one system tag equal to neither, all under strict equality
C5_Witness ==
    /\ pc = "eval" /\ StrictNow
    /\ Len(counts) = 2
    /\ counts[1] = [tp |-> 2, fp |-> 0, fn |-> 0]
    /\ gold_tags = {2, 3} /\ system_tags = {4}
    /\ doc_sets = [tp |-> {}, fp |-> {4}, fn |-> {2, 3}]
    /\ doc_metrics.precision = Zero

\* The orders in which n documents can be taken
Orders(n) == {f \in [1..n -> 1..n] : \A i \in 1..n, j \in 1..n : f[i] = f[j] => i = j}

\* The counts of the documents cs summed in the order f, from the first on
RECURSIVE SummedUpTo(_, _, _)
SummedUpTo(cs, f, n) ==
    IF n = 0 THEN [tp |-> 0, fp |-> 0, fn |-> 0]
    ELSE LET before == SummedUpTo(cs, f, n - 1)
         IN  [tp |-> before.tp + cs[f[n]].tp, fp |-> before.fp + cs[f[n]].fp,
              fn |-> before.fn + cs[f[n]].fn]

DocA == [tp |-> 2, fp |-> 1, fn |-> 0]

DocB == [tp |-> 1, fp |-> 0, fn |-> 1]

\* C6: the global counts are the per-document counts summed, in whatever
\* order the documents are taken; the reported precision and recall are the
\* ratios of those sums (0 for a zero denominator); documents A and B give
\* precision = recall = 3/4, not the mean 5/6 of their precisions.
C6_MicroAverage ==
    /\ \A f \in Orders(Len(counts)) : SummedUpTo(counts, f, Len(counts)) = totals
    /\ pc = "reported" =>
        /\ report.precision.num * (totals.tp + totals.fp) = report.precision.den * totals.tp
        /\ report.recall.num * (totals.tp + totals.fn) = report.recall.den * totals.tp
        /\ (counts = <<DocA, DocB>> \/ counts = <<DocB, DocA>>) =>
              /\ report.precision = [num |-> 3, den |-> 4]
              /\ report.recall = [num |-> 3, den |-> 4]
              /\ report.precision # [num |-> 5, den |-> 6]

C6_Witness ==
    /\ pc = "reported"
    /\ counts = <<DocA, DocB>>
    /\ totals = [tp |-> 3, fp |-> 1, fn |-> 1]
    /\ report.precision = [num |-> 3, den |-> 4]
    /\ report.recall = [num |-> 3, den |-> 4]

(***************************************************************************)
(* evaluate.py: one run of evaluate_rdoc, from the check of the two        *)
(* folders to the printed scores                                           *)
(***************************************************************************)
s_mild_padded == <<32, 109, 105, 108, 100, 32>>   \* " mild "

\* sorted(files): file names are numbered in their sorting order
RECURSIVE sorted(_)
sorted(D) ==
    IF D = {} THEN << >>
    ELSE LET m == CHOOSE x \in D : \A y \in D : x <= y
         IN  <<m>> \o sorted(D \ {m})

\* Mutant of get_prediction: an unknown label is taken as ABSENT
get_prediction_default(raw) ==
    LET sc == strip(upper(raw))
    IN  IF \E p \in level2score : p[1] = sc
        THEN [ok |-> TRUE, value |-> (CHOOSE p \in level2score : p[1] = sc)[2]]
        ELSE [ok |-> TRUE, value |-> 0]

\* get_prediction, on the score attribute of a file: the label is upper-cased
\* and stripped, then looked up; ok is FALSE when wrong_severity_value is raised
get_prediction(raw) ==
    LET sc == strip(upper(raw))
    IN  IF \E p \in level2score : p[1] = sc
        THEN [ok |-> TRUE, value |-> (CHOOSE p \in level2score : p[1] = sc)[2]]
        ELSE [ok |-> FALSE, value |-> 0]

ErrorLine(what) == [kind |-> "error", what |-> what]

\* score2level[value].lower()
ClassLine(v) ==
    [kind |-> "class",
     what |-> CASE v = 0 -> "absent" [] v = 1 -> "mild" [] v = 2 -> "moderate"
                [] OTHER -> "severe"]

ScoreLine == [kind |-> "score", what |-> "SCORE"]

\* golds != systs: the message, then diff_folders_content is raised
CheckFolders ==
    /\ pc = "rdoc"
    /\ IF DOMAIN gold_fld # DOMAIN syst_fld
       THEN /\ stdout' = Append(stdout, ErrorLine("folders"))
            /\ pc' = "raised"
       ELSE /\ stdout' = stdout
            /\ pc' = "read_gold"
    /\ UNCHANGED scorevars
    /\ RdocFrame

\* X = [get_prediction(f) for f in sorted(gold files)], one file a step
ReadGoldFile ==
    /\ pc = "read_gold"
    /\ IF Len(X) = Cardinality(DOMAIN gold_fld)
       THEN pc' = "read_syst" /\ UNCHANGED <<X, stdout>>
       ELSE LET r == get_prediction(gold_fld[sorted(DOMAIN gold_fld)[Len(X) + 1]])
            IN  IF r.ok
                THEN X' = Append(X, r.value) /\ UNCHANGED <<pc, stdout>>
                ELSE /\ stdout' = Append(stdout, ErrorLine("severity"))
                     /\ pc' = "raised"
                     /\ X' = X
    /\ UNCHANGED <<Y, todo, mae_per_score, stats_per_score, score>>
    /\ RdocFrame

\* Y = [get_prediction(f) for f in sorted(system files)]
ReadSystFile ==
    /\ pc = "read_syst"
    /\ IF Len(Y) = Cardinality(DOMAIN syst_fld)
       THEN pc' = "labels_read" /\ UNCHANGED <<Y, stdout>>
       ELSE LET r == get_prediction(syst_fld[sorted(DOMAIN syst_fld)[Len(Y) + 1]])
            IN  IF r.ok
                THEN Y' = Append(Y, r.value) /\ UNCHANGED <<pc, stdout>>
                ELSE /\ stdout' = Append(stdout, ErrorLine("severity"))
                     /\ pc' = "raised"
                     /\ Y' = Y
    /\ UNCHANGED <<X, todo, mae_per_score, stats_per_score, score>>
    /\ RdocFrame

\* The lines printed after compute_score returned: one per class, then SCORE
PrintScores ==
    /\ pc = "scored"
    /\ stdout' = stdout
                   \o [i \in 1..Len(sorted({X[j] : j \in 1..Len(X)})) |->
                          ClassLine(sorted({X[j] : j \in 1..Len(X)})[i])]
                   \o <<ScoreLine>>
    /\ pc' = "printed"
    /\ UNCHANGED scorevars
    /\ RdocFrame

(***************************************************************************)
(* Specification SpecRdoc: every run of evaluate_rdoc over two folders of  *)
(* up to MaxFiles files                                                    *)
(***************************************************************************)
MaxFiles == 2

RawLabels == {s_MILD, s_SEVERE, s_mild_padded, s_FOO}

Folders == UNION {[D -> RawLabels] : D \in SUBSET (1..MaxFiles)}

InitRdoc ==
    /\ pc = "rdoc"
    /\ TagInit /\ FilterIdle /\ ScoreIdle /\ EvalIdle /\ BuildIdle /\ CallIdle
    /\ gold_fld \in Folders
    /\ syst_fld \in Folders
    /\ stdout = << >>

NextRdoc ==
    \/ CheckFolders \/ ReadGoldFile \/ ReadSystFile
    \/ ComputeScoreEnter \/ ComputeScoreClass \/ ComputeScoreReturn
    \/ PrintScores

SpecRdoc == InitRdoc /\ [][NextRdoc]_vars

(***************************************************************************)
(* Claims about malformed tags (under Spec)                                *)
(***************************************************************************)
\* C12: when a or b was built with a warning (an attribute that failed its
\* validator, or a key attribute that was missing), a == b still returns True
\* or False and the hashes are computed, under the strict and the fuzzy policy.
C12_MalformedTagCompares ==
    (pc \in {"compared", "hashed"} /\ warnings # {}) =>
        /\ cmp.eq \in {"True", "False"}
        /\ pc = "hashed" => (cmp.hash_a \in 0..(HashWidth - 1) /\ cmp.hash_b \in 0..(HashWidth - 1))

(***************************************************************************)
(* Claims about a run of evaluate_rdoc (under SpecRdoc)                    *)
(***************************************************************************)
SameFiles == DOMAIN gold_fld = DOMAIN syst_fld

SeverityNames == {p[1] : p \in level2score}

\* Some file of either folder carries a label for which test(label) fails
SomeLabelFails(test(_)) ==
    \/ \E f \in DOMAIN gold_fld : ~ test(gold_fld[f])
    \/ \E f \in DOMAIN syst_fld : ~ test(syst_fld[f])

IsSeverityName(raw) == raw \in SeverityNames

ReadsAsSeverityName(raw) == strip(upper(raw)) \in SeverityNames

NoScoreLine == \A i \in 1..Len(stdout) : stdout[i].kind = "error"

RaisedAfterMessage ==
    /\ pc = "raised"
    /\ Len(stdout) > 0
    /\ stdout[Len(stdout)].kind = "error"

\* C11 as stated: when the folders differ in their file names or some label
\* is not one of ABSENT, MILD, MODERATE, SEVERE, no score line is printed.
C11_AnyLabelOutsideScale ==
    (~ SameFiles \/ SomeLabelFails(IsSeverityName)) => NoScoreLine

\* How far a run is: the folder check, then the gold files, then the system
\* files, then the end by a raised error
Progress ==
    CASE pc = "rdoc" -> 0
      [] pc = "read_gold" -> 1 + Len(X)
      [] pc = "read_syst" -> 2 + Cardinality(DOMAIN gold_fld) + Len(Y)
      [] pc = "raised" -> 3 + Cardinality(DOMAIN gold_fld) + Cardinality(DOMAIN syst_fld)
      [] OTHER -> -1

UnfitForScoring == ~ SameFiles \/ SomeLabelFails(ReadsAsSeverityName)

\* C11, amended: when the folders differ in their file names, or some label,
\* upper-cased and stripped of the blanks around it, is not one of ABSENT,
\* MILD, MODERATE, SEVERE, then the run never prints a score line, it never
\* gets past the reading of the labels unless by a raised error whose message
\* is the last line printed, and every step takes it nearer to that end.
C11_FatalBeforeScores ==
    /\ [](UnfitForScoring =>
            /\ NoScoreLine
            /\ pc \in {"rdoc", "read_gold", "read_syst"} \/ RaisedAfterMessage)
    /\ [][UnfitForScoring => (Progress >= 0 /\ Progress' > Progress)]_vars

\* The gold label " mild " was read as 1, then the system label FOO ended the run
C11_Witness ==
    /\ pc = "raised"
    /\ SameFiles
    /\ gold_fld = (1 :> s_mild_padded)
    /\ syst_fld = (1 :> s_FOO)
    /\ X = <<1>> /\ Y = << >>
    /\ stdout = <<ErrorLine("severity")>>

(***************************************************************************)
(* tags.py: a tag is built from an element, then asked is_valid()          *)
(***************************************************************************)
s_THE == <<84, 72, 69>>   \* "THE"

\* Tag.is_valid: every declared attribute that is set passes its validator,
\* and one that is not set is not in the key
is_valid(t) ==
    \A i \in 1..Len(attributes(t.cls)) :
        LET k == attributes(t.cls)[i]
        IN  IF hasattr(t, k) THEN validp(t.cls, k, t[k])
            ELSE ~ \E j \in 1..Len(key(t.cls)) : key(t.cls)[j] = k

\* a = cls(element)
Construct(cls, element) ==
    /\ pc = "element"
    /\ xml_element' = element
    /\ a' = AnnotatorTag__init__(cls, element)
    /\ warnings' = init_warnings(cls, element)
    /\ pc' = "constructed"
    /\ UNCHANGED <<policy, installed, last_call, b, cmp, is_valid_result>>
    /\ UNCHANGED <<filtervars, scorevars, evalvars, rdocvars, callvars>>

\* a.is_valid()
IsValid ==
    /\ pc = "constructed"
    /\ is_valid_result' = IF is_valid(a) THEN "True" ELSE "False"
    /\ pc' = "validated"
    /\ UNCHANGED <<tagvars, xml_element>>
    /\ UNCHANGED <<filtervars, scorevars, evalvars, rdocvars, callvars>>

(***************************************************************************)
(* Specification SpecTag: one tag of any span class, from any element      *)
(***************************************************************************)
TagElements ==
    {MkElement(s_DATE, x[1], x[2], x[3], x[4], x[5]) :
        x \in {s_P1, Absent}
              \X {s_10, s_1a, Absent}
              \X {s_12, s_empty, Absent}
              \X {s_DATE, s_date_lower, s_PATIENT, s_OTHER, s_THE, s_FOO, s_empty, Absent}
              \X {s_FOO, Absent}}

InitTag ==
    pc = "element" /\ TagInit /\ FilterIdle /\ ScoreIdle /\ EvalIdle /\ RdocIdle /\ BuildIdle
        /\ CallIdle

NewTag ==
    \E cls \in {"AnnotatorTag", "PHITag"} \cup VariantClasses, el \in TagElements :
        Construct(cls, el)

NextTag == NewTag \/ IsValid

SpecTag == InitTag /\ [][NextTag]_vars

(***************************************************************************)
(* Claims about construction and validation (under SpecTag)                *)
(***************************************************************************)
InKey(cls, k) == \E j \in 1..Len(key(cls)) : key(cls)[j] = k

Declared(cls, k) == \E i \in 1..Len(attributes(cls)) : attributes(cls)[i] = k

\* C13: after a tag is built from an element, every declared attribute the
\* element has holds the element's value, valid or not; every key attribute
\* the element lacks holds the empty string; so every attribute named in the
\* key holds a string and the key tuple can be computed.
C13_BestEffortConstruction ==
    pc \in {"constructed", "validated"} =>
        /\ a.name = xml_element.tag
        /\ \A k \in AttrNames :
              (Declared(a.cls, k) /\ xml_element.attrib[k] # Absent) =>
                  a[k] = xml_element.attrib[k]
        /\ \A k \in AttrNames :
              (InKey(a.cls, k) /\ xml_element.attrib[k] = Absent) => a[k] = s_empty
        /\ \A j \in 1..Len(key(a.cls)) :
              getattr(a, key(a.cls)[j]) \notin {Unset, None, Absent}
        /\ Len(_get_key(a)) = Len(key(a.cls))

\* A DateTag was built from an element whose start does not parse and whose
\* end and TYPE are missing
C13_Witness ==
    /\ pc = "constructed"
    /\ a.cls = "DateTag"
    /\ xml_element.attrib["start"] = s_1a /\ a.start = s_1a
    /\ xml_element.attrib["end"] = Absent /\ a.end = s_empty
    /\ xml_element.attrib["TYPE"] = Absent /\ a.TYPE = s_empty
    /\ <<"start", "not valid">> \in warnings

\* The legal TYPE values of a variant
LegalTypes(cls) == IF cls = "OtherTag" THEN {s_OTHER} ELSE valid_TYPE(cls)

\* C14: for a tag of one of the eight variants, is_valid() is true if and
\* only if start and end parse as integers and TYPE, upper-cased, is one of
\* the variant's legal TYPE values.
C14_IsValidPerVariant ==
    (pc = "validated" /\ a.cls \in VariantClasses) =>
        ((is_valid_result = "True") <=>
            /\ int_ok(a.start) /\ int_ok(a.end)
            /\ upper(a.TYPE) \in LegalTypes(a.cls))

(***************************************************************************)
(* evaluate.py: evaluate(system, gs, eval_class).  A path is a file, a     *)
(* directory, or missing.  What eval_class builds and prints is in         *)
(* classes.py; here an evaluation is known by its system id only.          *)
(***************************************************************************)
ReportLine(what) == [kind |-> "report", what |-> what]

\* The call, up to the choice of the branch.  ids: the system ids that
\* get_document_dict_by_system_id finds in the system directories.
CallEvaluate(system_list, gs, ids) ==
    /\ pc = "call"
    /\ system_paths' = system_list
    /\ gs_path' = gs
    /\ IF gs = "missing" \/ \E i \in 1..Len(system_list) : system_list[i] = "missing"
       THEN \* assert os.path.exists(...)
            /\ call_result' = "AssertionError"
            /\ pc' = "raised"
            /\ UNCHANGED <<sys_ids, evaluations, stdout>>
       ELSE IF system_list[1] = "file" /\ gs = "file"
       THEN \* e = eval_class({s.id: s}, {gs.id: gs}); e.print_docs()
            /\ evaluations' = Append(evaluations, "file")
            /\ stdout' = Append(stdout, ReportLine("docs"))
            /\ pc' = "return"
            /\ UNCHANGED <<sys_ids, call_result>>
       ELSE IF (\A i \in 1..Len(system_list) : system_list[i] = "dir") /\ gs = "dir"
       THEN /\ sys_ids' = ids
            /\ pc' = "systems"
            /\ UNCHANGED <<evaluations, call_result, stdout>>
       ELSE \* Exception("Must pass file.xml file.xml or [directory/]+ directory/ ...")
            \* is built and dropped: there is no raise
            /\ pc' = "return"
            /\ UNCHANGED <<sys_ids, evaluations, call_result, stdout>>
    /\ UNCHANGED <<gold_fld, syst_fld, tagvars, filtervars, scorevars, evalvars, buildvars>>

\* One turn of the loop over the system ids, in the order of the dictionary
EvaluateSystem ==
    /\ pc = "systems"
    /\ IF sys_ids = {}
       THEN pc' = "return" /\ UNCHANGED <<sys_ids, evaluations, stdout>>
       ELSE \E s_id \in sys_ids :
               /\ sys_ids' = sys_ids \ {s_id}
               /\ evaluations' = Append(evaluations, s_id)
               /\ stdout' = Append(stdout, ReportLine("report"))
               /\ pc' = pc
    /\ UNCHANGED <<system_paths, gs_path, call_result>>
    /\ UNCHANGED <<gold_fld, syst_fld, tagvars, filtervars, scorevars, evalvars, buildvars>>

\* return evaluations[0] if len(evaluations) == 1 else evaluations
ReturnEvaluations ==
    /\ pc = "return"
    /\ call_result' = IF Len(evaluations) = 1 THEN "evaluation" ELSE "list"
    /\ pc' = "returned"
    /\ UNCHANGED <<system_paths, gs_path, sys_ids, evaluations>>
    /\ UNCHANGED <<rdocvars, tagvars, filtervars, scorevars, evalvars, buildvars>>

(***************************************************************************)
(* Specification SpecCall: one call of evaluate with up to MaxSystemPaths  *)
(* system paths and up to MaxSystems system ids in them                    *)
(***************************************************************************)
MaxSystemPaths == 2

MaxSystems == 2

PathKinds == {"file", "dir", "missing"}

SystemLists == UNION {[1..n -> PathKinds] : n \in 1..MaxSystemPaths}

SystemIds == {"", "sys1", "sys2", "sys3"}

IdSets == {I \in SUBSET SystemIds : Cardinality(I) <= MaxSystems}

InitCall ==
    pc = "call" /\ TagInit /\ FilterIdle /\ ScoreIdle /\ EvalIdle /\ RdocIdle /\ BuildIdle
        /\ CallIdle

NewCall ==
    \E system_list \in SystemLists, gs \in PathKinds, ids \in IdSets :
        CallEvaluate(system_list, gs, ids)

NextCall == NewCall \/ EvaluateSystem \/ ReturnEvaluations

SpecCall == InitCall /\ [][NextCall]_vars

(***************************************************************************)
(* Claims about evaluate (under SpecCall)                                  *)
(***************************************************************************)
AllExist ==
    /\ gs_path \in {"file", "dir"}
    /\ \A i \in 1..Len(system_paths) : system_paths[i] \in {"file", "dir"}

FileAndFile == Len(system_paths) = 1 /\ system_paths[1] = "file" /\ gs_path = "file"

DirectoriesAndDirectory ==
    /\ Len(system_paths) >= 1
    /\ \A i \in 1..Len(system_paths) : system_paths[i] = "dir"
    /\ gs_path = "dir"

\* C15: a call with existing paths that are neither file/file nor
\* directories/directory ends raised, and never returns.
C15_OtherShapesFail ==
    (pc # "call" /\ AllExist /\ ~ FileAndFile /\ ~ DirectoriesAndDirectory) =>
        (pc = "raised" /\ call_result = "Exception")

(***************************************************************************)
(* Claims about the range of the ordinal scores (under SpecScore)          *)
(***************************************************************************)
\* 0 <= r <= 100, for a fraction r of positive denominator
InPercentRange(r) == r.den > 0 /\ r.num >= 0 /\ r.num <= 100 * r.den

\* C16: when compute_score returns for non-empty label sequences of equal
\* length, every per-class score and the overall score lie in [0, 100], and
\* the overall score is 100 if and only if the system labels equal the gold
\* labels document by document.
C16_ScoreRange ==
    pc = "scored" =>
        /\ Len(X) > 0 /\ Len(X) = Len(Y)
        /\ \A i \in 1..Len(mae_per_score) : InPercentRange(mae_per_score[i])
        /\ \A v \in Labels : stats_per_score[v].present =>
              InPercentRange(stats_per_score[v].result)
        /\ InPercentRange(score)
        /\ (score = [num |-> 100, den |-> 1]) <=> (X = Y)

\* Gold 0 answered by 3 scores 0 for its class, gold 1 answered by 1 scores
\* 100, and the overall score is 50
C16_Witness ==
    /\ pc = "scored"
    /\ X = <<0, 1>> /\ Y = <<3, 1>>
    /\ mae_per_score = <<[num |-> 0, den |-> 1], [num |-> 100, den |-> 1]>>
    /\ score = [num |-> 50, den |-> 1]

====
